---- MODULE Spec2Model ----
(***************************************************************************)
(* Model of the rule-evaluation engine of pages/SmartApps.py: the aging    *)
(* analysis (ap01_aging_analysis), the duplicate detection                 *)
(* (ap02_find_duplicates), the net debit balances (ap03_debit_balances),   *)
(* the credit limit checks (ap04_exceeds_limit, ap05_exceeds_limit_period) *)
(* and the duplicate field search (ap14_duplicate_fields), as pandas       *)
(* evaluates them.                                                         *)
(*                                                                         *)
(* A table is a sequence of rows; a row's index label is its position in   *)
(* the input table (pandas' RangeIndex, counted from 1 here).  A date cell *)
(* is kept as read ([day, pm]: a calendar day and whether the cell carries *)
(* a 12:00 time of day); pd.to_datetime turns it into a Timestamp, counted *)
(* in half days.  A missing numeric cell (NaN) is the empty tuple and a    *)
(* present one is <<n>>.  Besides the four mapped columns (v, inv, d, amt) *)
(* a table has a column x that no field is mapped to.                      *)
(*                                                                         *)
(* One run of the page's script reads the uploaded table and, on a button  *)
(* press, calls one analyzer; the returned tables are locals of that run.  *)
(***************************************************************************)
EXTENDS Integers, Sequences, FiniteSets, TLC

\* ------------------------------------------------------------------ bounds
MaxRows == 3
MaxDay == 2
MaxTol == 5
MaxPeriods == 2
MaxThreshold == 2

\* ------------------------------------------------------------------ values
NaN == <<>>

Vendors == {"X", "Y"}
Invoices == {1, 2}
\* A date cell holding a text that pd.to_datetime finds no date in.
Unparseable == [text |-> "soon"]
\* Dates without a time of day, day 0 at 12:00, and the unparseable cell.
Dates ==
    {[day |-> d, pm |-> FALSE] : d \in 0..MaxDay} \cup {[day |-> 0, pm |-> TRUE]}
        \cup {Unparseable}
Amounts == {<<100>>, <<200>>, NaN}
Extras == {0, 1}

FieldNames == {"v", "inv", "d", "amt", "x"}

AllRows == [v : Vendors, inv : Invoices, d : Dates, amt : Amounts, x : Extras]

BaseRow == [v |-> "X", inv |-> 1, d |-> [day |-> 0, pm |-> FALSE], amt |-> <<100>>, x |-> 0]

\* The rows the tables are drawn from: the base row and every row that differs
\* from it in one cell.
RowValues == {r \in AllRows : Cardinality({f \in FieldNames : r[f] # BaseRow[f]}) <= 1}

RECURSIVE SeqsUpTo(_, _)
SeqsUpTo(S, n) ==
    IF n = 0 THEN {<<>>}
    ELSE LET shorter == SeqsUpTo(S, n - 1)
         IN  shorter \cup {Append(s, e) : s \in {t \in shorter : Len(t) = n - 1}, e \in S}

Tables == SeqsUpTo(RowValues, MaxRows)

TestTypes == {"exact", "near_invoice", "near_date", "similar_vendor", "similar_invoice"}
\* A test_type none of the branches of ap02_find_duplicates names.
UnknownTestType == "fuzzy"

Tolerances == 0..MaxTol

PeriodLists == SeqsUpTo(1..MaxThreshold, MaxPeriods) \ {<<>>}

\* ------------------------------------------------------------------ state
VARIABLES
    table,        \* the caller's table (df)
    op,           \* the analyzer called last, "none" before any call
    test_type,    \* ap02: the strategy of the last call
    tolerance,    \* ap02: tolerance (days) of the last call
    cutoff_date,  \* ap01: the cutoff day of the last call
    period_list,  \* ap01: the parsed periods of the last call
    status,       \* "idle" (no analysis run yet), "returned" or the exception raised
    result,       \* the returned table: a sequence of rows with their index label
    summary,      \* ap01: the returned summary table
    limits,       \* ap04, ap05: the caller's credit limits table (df_limits)
    start_date,   \* ap05: the first day of the window of the last call
    end_date,     \* ap05: the last day of the window of the last call
    fields,       \* ap14: the fields list of the last call
    error_limit,  \* ap14: the error_limit argument of the last call: <<n>> (<<0>> for
                  \* None), or <<>> when the call passes none
    warning,      \* ap14: the counts of the truncation warning the call showed
                  \* (<<found, shown>>), <<>> when it showed none
    selection,    \* ap06 to ap13: the arguments of the call next to the table, <<>>
                  \* when none of them was called
    mappings,     \* st.session_state.mappings: for every analysis key <<>> (no
                  \* entry) or <<mapping>>
    persisted,    \* the file ap_mappings.json
    trail,        \* history: how far the last sidebar presses got through Save,
                  \* Clear, Load
    snapshot,     \* history: the session mappings at the last Save
    earlier,      \* history: an earlier call of the session and what it returned,
                  \* <<>> when none is remembered
    users,        \* auth: the rows of the table users of users.db, by username
    reply         \* auth: what the last call of create_user or verify_user returned

\* The arguments of the limit analyzers and of the duplicate field search.
limit_args == <<limits, start_date, end_date>>
field_args == <<fields, error_limit, warning>>

\* The mapping store with its history, and the users database.
app_vars == <<mappings, persisted, trail, snapshot, earlier, users, reply>>

vars == <<table, op, test_type, tolerance, cutoff_date, period_list, status, result, summary,
          limit_args, field_args, selection, app_vars>>

\* ------------------------------------------------------------------ session and users
\* The analysis keys of the pages the mapping store is followed for.
KeyAP02 == "AP02 - Duplicate Invoices"
KeyAP03 == "AP03 - Net Debit Balances"
KeyAP11 == "AP11 - Transactions by UserID"
AnalysisKeys == {KeyAP02, KeyAP03, KeyAP11}

\* st.session_state.mappings = {}
NoMappings == [k \in AnalysisKeys |-> <<>>]

\* The start of a session: no mappings, no mappings file (before any Save,
\* open() raises FileNotFoundError), no user, nothing called.
InitApp ==
    /\ mappings = NoMappings
    /\ persisted = [exists |-> FALSE, text |-> <<>>]
    /\ trail = "none"
    /\ snapshot = NoMappings
    /\ earlier = <<>>
    /\ users = <<>>
    /\ reply = <<>>

\* ------------------------------------------------------------------ pandas helpers
\* pd.to_datetime of a date cell, in half days since day 0.
ToDatetime(d) == 2 * d.day + (IF d.pm THEN 1 ELSE 0)

\* pd.to_datetime of the date column returns: every cell holds a date.  It
\* raises a ValueError otherwise (errors='raise' is the default).
Parseable(d) == "day" \in DOMAIN d
\* Mutant: to_datetime raising on a column without cells.
DatesParseNonEmpty(t) == t # <<>> /\ \A i \in 1..Len(t) : Parseable(t[i].d)
DatesParse(t) == \A i \in 1..Len(t) : Parseable(t[i].d)

\* Timedelta.days of a difference of Timestamps: the floor of the difference in days.
TimedeltaDays(delta) == delta \div 2

Abs(n) == IF n < 0 THEN -n ELSE n

\* df with its date column converted (df[date_field] = pd.to_datetime(df[date_field])),
\* each row with its index label.
Indexed(t) == [i \in 1..Len(t) |-> [idx |-> i, row |-> t[i]]]

ConvertDates(t) ==
    [i \in 1..Len(t) |-> [idx |-> i, row |-> [t[i] EXCEPT !.d = ToDatetime(t[i].d)]]]

\* df[mask]: the rows whose index label is in keep, in the order of df.
RECURSIVE Filter(_, _)
Filter(s, keep) ==
    IF s = <<>> THEN <<>>
    ELSE LET rest == Filter(Tail(s), keep)
         IN  IF Head(s).idx \in keep THEN <<Head(s)>> \o rest ELSE rest

\* Mutant: keep='first', which leaves the first row of every tuple unmarked.
DuplicatedKeepFirst(t, subset) ==
    {i \in 1..Len(t) : \E j \in 1..(i - 1) : \A f \in subset : t[j][f] = t[i][f]}

\* df.duplicated(subset=subset, keep=False): the index labels of the rows that
\* agree with another row on every column of subset (NaN agrees with NaN).
Duplicated(t, subset) ==
    {i \in 1..Len(t) : \E j \in 1..Len(t) : j # i /\ \A f \in subset : t[j][f] = t[i][f]}

\* DataFrame.drop_duplicates(): of the rows equal on every column, the first is
\* kept (the index label is no column).
RECURSIVE DropDuplicatesFrom(_, _)
DropDuplicatesFrom(s, seen) ==
    IF s = <<>> THEN <<>>
    ELSE IF Head(s).row \in seen THEN DropDuplicatesFrom(Tail(s), seen)
         ELSE <<Head(s)>> \o DropDuplicatesFrom(Tail(s), seen \cup {Head(s).row})

DropDuplicates(s) == DropDuplicatesFrom(s, {})

\* The order of the vendor strings.
StrOrd(v) == IF v = "X" THEN 1 ELSE IF v = "Y" THEN 2 ELSE 3

\* The order of a numeric cell in sort_values: NaN after every number.
NumOrd(a) == IF a = NaN THEN <<1, 0>> ELSE <<0, a[1]>>

RECURSIVE LexLess(_, _)
LexLess(a, b) ==
    IF a = <<>> \/ b = <<>> THEN a = <<>> /\ b # <<>>
    ELSE IF Head(a) # Head(b) THEN Head(a) < Head(b)
         ELSE LexLess(Tail(a), Tail(b))

\* df.sort_values(columns): the rows in the order of their keys; the sort of
\* several columns is stable, so rows of equal keys keep their order (the index
\* label ends every key).
RECURSIVE SortValuesOf(_, _)
SortValuesOf(entries, key) ==
    IF entries = {} THEN <<>>
    ELSE LET first == CHOOSE e \in entries :
                        \A o \in entries \ {e} : LexLess(key[e.idx], key[o.idx])
         IN  <<first>> \o SortValuesOf(entries \ {first}, key)

SortValues(df, key) == SortValuesOf({df[i] : i \in 1..Len(df)}, key)

RECURSIVE Concat(_)
Concat(ss) == IF ss = <<>> THEN <<>> ELSE Head(ss) \o Concat(Tail(ss))

\* The nested loops over the rows i < j of every group of a sorted frame: the
\* groups are runs of the sorted frame and groupby yields them in key order, so
\* the pairs come in the order of (i, j) over the whole frame.
PairRows(df, match) ==
    Concat([i \in 1..Len(df) |->
        Concat([j \in 1..Len(df) |->
            IF j > i /\ match[i][j] THEN <<df[i], df[j]>> ELSE <<>>])])

\* ------------------------------------------------------------------ AP02
\* Mutant: the difference in days without abs().
date_diff_signed(ri, rj) == TimedeltaDays(ri.d - rj.d)

\* abs((group.iloc[i][date_field] - group.iloc[j][date_field]).days)
date_diff(ri, rj) == Abs(TimedeltaDays(ri.d - rj.d))

\* group.iloc[i][amount_field] == group.iloc[j][amount_field]: NaN equals nothing.
amount_match(ri, rj) == ri.amt # NaN /\ ri.amt = rj.amt

ExactSubset == {"v", "inv", "d", "amt"}
\* Mutant: the vendor column kept in the subset of 'similar_vendor'.
SimilarVendorSubsetWithVendor == {"v", "inv", "d", "amt"}
SimilarVendorSubset == {"inv", "d", "amt"}
SimilarInvoiceSubset == {"v", "d", "amt"}

NearInvoiceKey(t) ==
    [i \in 1..Len(t) |-> <<StrOrd(t[i].v), t[i].inv, ToDatetime(t[i].d), i>>]

NearDateKey(t) ==
    [i \in 1..Len(t) |-> <<StrOrd(t[i].v), t[i].inv>> \o NumOrd(t[i].amt)
                            \o <<ToDatetime(t[i].d), i>>]

NearInvoiceGroup(ri, rj) == ri.v = rj.v /\ ri.inv = rj.inv
\* Mutant: 'near_date' grouped by vendor and invoice only.
NearDateGroupNoAmount(ri, rj) == ri.v = rj.v /\ ri.inv = rj.inv
\* groupby drops the rows whose key holds a NaN.
NearDateGroup(ri, rj) == ri.v = rj.v /\ ri.inv = rj.inv /\ ri.amt # NaN /\ ri.amt = rj.amt

\* Mutant: 'near_invoice' with `date_diff == tolerance` for `date_diff <= tolerance`.
NearInvoiceAtDistance(t, tol) ==
    LET df == SortValues(ConvertDates(t), NearInvoiceKey(t))
        match == [i \in 1..Len(df) |-> [j \in 1..Len(df) |->
                    /\ NearInvoiceGroup(df[i].row, df[j].row)
                    /\ date_diff(df[i].row, df[j].row) = tol
                    /\ amount_match(df[i].row, df[j].row)]]
        duplicates_list == PairRows(df, match)
    IN  DropDuplicates(duplicates_list)

NearInvoice(t, tol) ==
    LET df == SortValues(ConvertDates(t), NearInvoiceKey(t))
        match == [i \in 1..Len(df) |-> [j \in 1..Len(df) |->
                    /\ NearInvoiceGroup(df[i].row, df[j].row)
                    /\ date_diff(df[i].row, df[j].row) <= tol
                    /\ amount_match(df[i].row, df[j].row)]]
        duplicates_list == PairRows(df, match)
    IN  DropDuplicates(duplicates_list)

NearDate(t, tol) ==
    LET df == SortValues(ConvertDates(t), NearDateKey(t))
        match == [i \in 1..Len(df) |-> [j \in 1..Len(df) |->
                    /\ NearDateGroup(df[i].row, df[j].row)
                    /\ date_diff(df[i].row, df[j].row) <= tol]]
        duplicates_list == PairRows(df, match)
    IN  DropDuplicates(duplicates_list)

\* ap02_find_duplicates: what the call returns or raises.  A test_type that no
\* branch names leaves `duplicates` unbound and `return duplicates` raises.
ap02_find_duplicates(t, tt, tol) ==
    CASE tt = "exact" ->
           [status |-> "returned", result |-> Filter(Indexed(t), Duplicated(t, ExactSubset))]
      [] tt = "near_invoice" ->
           IF DatesParse(t) THEN [status |-> "returned", result |-> NearInvoice(t, tol)]
           ELSE [status |-> "ValueError", result |-> <<>>]
      [] tt = "near_date" ->
           IF DatesParse(t) THEN [status |-> "returned", result |-> NearDate(t, tol)]
           ELSE [status |-> "ValueError", result |-> <<>>]
      [] tt = "similar_vendor" ->
           [status |-> "returned", result |-> Filter(Indexed(t), Duplicated(t, SimilarVendorSubset))]
      [] tt = "similar_invoice" ->
           [status |-> "returned", result |-> Filter(Indexed(t), Duplicated(t, SimilarInvoiceSubset))]
      [] OTHER ->
           [status |-> "UnboundLocalError", result |-> <<>>]

\* ------------------------------------------------------------------ AP01
\* The labels of assign_bucket: 'Future', f'{lo}-{hi} days' and f'Over {hi} days'.
Future == [kind |-> "Future", lo |-> 0, hi |-> 0]
Range(lo, hi) == [kind |-> "Range", lo |-> lo, hi |-> hi]
Over(last) == [kind |-> "Over", lo |-> 0, hi |-> last]

\* Mutant: `days < period` for `days <= period`.
RECURSIVE assign_bucket_from_strict(_, _, _)
assign_bucket_from_strict(days, pl, i) ==
    IF i > Len(pl) THEN Over(pl[Len(pl)])
    ELSE IF days < pl[i]
         THEN LET prev == IF i > 1 THEN pl[i - 1] ELSE 0
              IN  Range(prev + 1, pl[i])
         ELSE assign_bucket_from_strict(days, pl, i + 1)

\* assign_bucket(days) over period_list pl, from its position i on.
RECURSIVE assign_bucket_from(_, _, _)
assign_bucket_from(days, pl, i) ==
    IF i > Len(pl) THEN Over(pl[Len(pl)])
    ELSE IF days <= pl[i]
         THEN LET prev == IF i > 1 THEN pl[i - 1] ELSE 0
              IN  Range(prev + 1, pl[i])
         ELSE assign_bucket_from(days, pl, i + 1)

\* Mutant: `days <= 0` for `days < 0`.
assign_bucket_zero_future(days, pl) ==
    IF days <= 0 THEN Future ELSE assign_bucket_from(days, pl, 1)

assign_bucket(days, pl) ==
    IF days < 0 THEN Future ELSE assign_bucket_from(days, pl, 1)

\* The characters of a label, as code points: groupby orders its keys as strings.
RECURSIVE Digits(_)
Digits(n) == IF n < 10 THEN <<48 + n>> ELSE Digits(n \div 10) \o <<48 + (n % 10)>>

LabelStr(l) ==
    CASE l.kind = "Future" -> <<70, 117, 116, 117, 114, 101>>
      [] l.kind = "Over" -> <<79, 118, 101, 114, 32>> \o Digits(l.hi) \o <<32, 100, 97, 121, 115>>
      [] OTHER -> Digits(l.lo) \o <<45>> \o Digits(l.hi) \o <<32, 100, 97, 121, 115>>

\* Series.sum() and Series.count() of a column over the rows of a group: both
\* skip the missing cells.
RECURSIVE SumSkipNa(_)
SumSkipNa(cells) ==
    IF cells = <<>> THEN 0
    ELSE (IF Head(cells) = NaN THEN 0 ELSE Head(cells)[1]) + SumSkipNa(Tail(cells))

RECURSIVE CountNotNa(_)
CountNotNa(cells) ==
    IF cells = <<>> THEN 0
    ELSE (IF Head(cells) = NaN THEN 0 ELSE 1) + CountNotNa(Tail(cells))

\* The amounts of the rows of df labelled l, in the order of df.
RECURSIVE GroupCells(_, _)
GroupCells(df, l) ==
    IF df = <<>> THEN <<>>
    ELSE (IF Head(df).Age_Bucket = l THEN <<Head(df).row.amt>> ELSE <<>>)
         \o GroupCells(Tail(df), l)

\* df.groupby('Age_Bucket')[amount_field].agg(['sum', 'count']).reset_index():
\* one row for each label of df, in the order of the labels.
RECURSIVE GroupByAgeBucket(_, _)
GroupByAgeBucket(df, labels) ==
    IF labels = {} THEN <<>>
    ELSE LET l == CHOOSE a \in labels :
                    \A b \in labels \ {a} : LexLess(LabelStr(a), LabelStr(b))
         IN  <<[Age_Bucket |-> l,
                Total_Amount |-> SumSkipNa(GroupCells(df, l)),
                Count |-> CountNotNa(GroupCells(df, l))]>>
             \o GroupByAgeBucket(df, labels \ {l})

\* Mutant: pd.to_datetime(..., errors='coerce'): an unparseable cell becomes
\* NaT, the age of its row is missing and assign_bucket, whose comparisons with
\* a missing age are all false, labels the row 'Over {last} days'.
ap01_aging_analysis_coerce(t, cutoff, pl) ==
    LET cutoffTs == ToDatetime([day |-> cutoff, pm |-> FALSE])
        df == [i \in 1..Len(t) |->
                 IF Parseable(t[i].d)
                 THEN LET days == TimedeltaDays(cutoffTs - ToDatetime(t[i].d))
                      IN  [idx |-> i, row |-> [t[i] EXCEPT !.d = ToDatetime(t[i].d)],
                           Days_Old |-> days, Age_Bucket |-> assign_bucket(days, pl)]
                 ELSE [idx |-> i, row |-> t[i], Days_Old |-> NaN,
                       Age_Bucket |-> Over(pl[Len(pl)])]]
    IN  [status |-> "returned", df |-> df,
         summary |-> GroupByAgeBucket(df, {df[i].Age_Bucket : i \in 1..Len(df)})]

\* ap01_aging_analysis: the annotated frame and the summary, or the error of
\* pd.to_datetime, raised before anything is computed.  cutoff is the day of
\* cutoff_date, a date without a time of day.
ap01_aging_analysis(t, cutoff, pl) ==
    IF ~DatesParse(t) THEN [status |-> "ValueError", df |-> <<>>, summary |-> <<>>] ELSE
    LET conv == ConvertDates(t)
        cutoffTs == ToDatetime([day |-> cutoff, pm |-> FALSE])
        Days_Old == [i \in 1..Len(t) |-> TimedeltaDays(cutoffTs - conv[i].row.d)]
        df == [i \in 1..Len(t) |->
                 [idx |-> i, row |-> conv[i].row, Days_Old |-> Days_Old[i],
                  Age_Bucket |-> assign_bucket(Days_Old[i], pl)]]
    IN  [status |-> "returned", df |-> df,
         summary |-> GroupByAgeBucket(df, {df[i].Age_Bucket : i \in 1..Len(df)})]

\* ------------------------------------------------------------------ actions
\* The rows of t after df[date_field] = pd.to_datetime(df[date_field]): the
\* date cells hold Timestamps.  Nothing is written when to_datetime raises.
DatesWritten(t) ==
    IF DatesParse(t)
    THEN [i \in 1..Len(t) |-> [t[i] EXCEPT !.d = [ts |-> ToDatetime(t[i].d)]]]
    ELSE t

\* Mutant: the column written without `df = df.copy()` before it, into the
\* frame of the caller.
CallerFrameInPlace(df, written) == written

\* The frame of the caller after `df = df.copy()` and the writes of columns
\* that follow it: the name is bound to a new frame, the writes land there,
\* and the frame of the caller keeps its rows.
CallerFrame(df, written) == df

Init ==
    /\ table \in Tables
    /\ op = "none"
    /\ test_type = "none"
    /\ tolerance = 0
    /\ cutoff_date = 0
    /\ period_list = <<>>
    /\ status = "idle"
    /\ result = <<>>
    /\ summary = <<>>
    /\ limits = <<>>
    /\ start_date = 0
    /\ end_date = 0
    /\ fields = <<>>
    /\ error_limit = <<>>
    /\ warning = <<>>
    /\ selection = <<>>
    /\ InitApp

\* The tables of the aging page: the vendor and the invoice number, which the
\* aging analysis has no field for, are those of the base row.
AgingTables ==
    SeqsUpTo({r \in RowValues : r.v = BaseRow.v /\ r.inv = BaseRow.inv}, MaxRows)

InitAging ==
    /\ table \in AgingTables
    /\ op = "none"
    /\ test_type = "none"
    /\ tolerance = 0
    /\ cutoff_date = 0
    /\ period_list = <<>>
    /\ status = "idle"
    /\ result = <<>>
    /\ summary = <<>>
    /\ limits = <<>>
    /\ start_date = 0
    /\ end_date = 0
    /\ fields = <<>>
    /\ error_limit = <<>>
    /\ warning = <<>>
    /\ selection = <<>>
    /\ InitApp

\* A run of the page's script that calls ap02_find_duplicates on the table.
\* The page asks for a tolerance for the two near strategies only and passes 0
\* otherwise.
FindDuplicates ==
    /\ status = "idle"
    /\ \E tt \in TestTypes \cup {UnknownTestType} :
        \E tol \in (IF tt \in {"near_invoice", "near_date"} THEN Tolerances ELSE {0}) :
          LET out == ap02_find_duplicates(table, tt, tol)
          IN  /\ op' = "ap02"
              /\ test_type' = tt
              /\ tolerance' = tol
              /\ status' = out.status
              /\ result' = out.result
              /\ summary' = <<>>
              /\ table' = CallerFrame(table,
                              IF tt \in {"near_invoice", "near_date"}
                              THEN DatesWritten(table) ELSE table)
              /\ UNCHANGED <<cutoff_date, period_list, limit_args, field_args, selection, app_vars>>

\* A run of the page's script that calls ap01_aging_analysis on the table, with
\* the cutoff date and the periods of the page.
AgingAnalysis ==
    /\ status = "idle"
    /\ \E cutoff \in 0..MaxDay, pl \in PeriodLists :
          LET out == ap01_aging_analysis(table, cutoff, pl)
          IN  /\ op' = "ap01"
              /\ cutoff_date' = cutoff
              /\ period_list' = pl
              /\ status' = out.status
              /\ result' = out.df
              /\ summary' = out.summary
              /\ table' = CallerFrame(table, DatesWritten(table))
              /\ UNCHANGED <<test_type, tolerance, limit_args, field_args, selection, app_vars>>

\* The next run of the page's script: the analysis ran in the run of the button
\* press and its result was a local of that run; the script starts over with
\* the uploaded table read again.
Rerun ==
    /\ status # "idle"
    /\ op' = "none"
    /\ test_type' = "none"
    /\ tolerance' = 0
    /\ cutoff_date' = 0
    /\ period_list' = <<>>
    /\ status' = "idle"
    /\ result' = <<>>
    /\ summary' = <<>>
    /\ start_date' = 0
    /\ end_date' = 0
    /\ fields' = <<>>
    /\ error_limit' = <<>>
    /\ warning' = <<>>
    /\ selection' = <<>>
    /\ UNCHANGED <<table, limits, app_vars>>

NextDuplicates == FindDuplicates \/ Rerun

NextAging == AgingAnalysis \/ Rerun

SpecAging == InitAging /\ [][NextAging]_vars

SpecDuplicates == Init /\ [][NextDuplicates]_vars

\* ------------------------------------------------------------------ properties
\* The index labels of the rows of the returned table.
ResultIdx == {result[k].idx : k \in 1..Len(result)}

\* How many rows of the returned table carry index label i.
Occurrences(i) == Cardinality({k \in 1..Len(result) : result[k].idx = i})

\* Rows i and j of the table agree on every field of subset.
SharesTuple(i, j, subset) == \A f \in subset : table[i][f] = table[j][f]

\* Row i has another row of the table with the same tuple over subset.
HasPartner(i, subset) == \E j \in 1..Len(table) : j # i /\ SharesTuple(i, j, subset)

\* The dates of rows i and j are at most tol days apart.
WithinDays(i, j, tol) ==
    /\ Parseable(table[i].d) /\ Parseable(table[j].d)
    /\ Abs(ToDatetime(table[i].d) - ToDatetime(table[j].d)) <= 2 * tol

\* Row i has another row with the same vendor, invoice and (present) amount
\* and a date at most tol days away.
HasNearPartner(i, tol) ==
    \E j \in 1..Len(table) :
        /\ j # i
        /\ SharesTuple(i, j, {"v", "inv", "amt"})
        /\ table[i].amt # NaN
        /\ WithinDays(i, j, tol)

CalledAp02(tt) == op = "ap02" /\ test_type = tt
CalledNear ==
    op = "ap02" /\ test_type \in {"near_invoice", "near_date"} /\ status = "returned"

\* C1: under 'exact' the returned rows are exactly the rows of the table whose
\* (vendor, invoice, date, amount) tuple another row shares, each as it is in
\* the table; a row without a partner is not returned.
C1_ExactReturnsSharedTuples ==
    CalledAp02("exact") =>
        /\ status = "returned"
        /\ \A i \in 1..Len(table) : i \in ResultIdx <=> HasPartner(i, {"v", "inv", "d", "amt"})
        /\ \A k \in 1..Len(result) :
              result[k].idx \in 1..Len(table) /\ result[k].row = table[result[k].idx]

\* An 'exact' run that returns two rows of a three-row table and leaves out the third.
C1_Witness ==
    /\ CalledAp02("exact")
    /\ Len(table) = 3
    /\ Cardinality(ResultIdx) = 2

\* C2: under 'near_invoice' and 'near_date' a row is in the result if and only
\* if another row has the same vendor, invoice and amount and a date at most
\* tolerance days away.
C2_NearReturnsPairwisePartners ==
    CalledNear =>
        \A i \in 1..Len(table) : i \in ResultIdx <=> HasNearPartner(i, tolerance)

\* C3: with tolerance 0 the near strategies return the rows that 'exact' returns.
C3_NearZeroEqualsExact ==
    (CalledNear /\ tolerance = 0) =>
        LET exact == ap02_find_duplicates(table, "exact", 0).result
        IN  ResultIdx = {exact[k].idx : k \in 1..Len(exact)}

\* Row i qualifies as a duplicate under the strategy of the last call.
Qualifies(i) ==
    CASE test_type = "exact" -> HasPartner(i, {"v", "inv", "d", "amt"})
      [] test_type = "similar_vendor" -> HasPartner(i, {"inv", "d", "amt"})
      [] test_type = "similar_invoice" -> HasPartner(i, {"v", "d", "amt"})
      [] OTHER -> HasNearPartner(i, tolerance)

\* C4: under every strategy each input row that qualifies is in the result
\* exactly once, rows of identical values each as a row of their own.
C4_EachQualifyingRowOnce ==
    (op = "ap02" /\ test_type \in TestTypes /\ status = "returned") =>
        \A i \in 1..Len(table) : Qualifies(i) => Occurrences(i) = 1

\* C5: 'similar_vendor' returns exactly the rows whose (invoice, date, amount)
\* another row shares, and 'similar_invoice' exactly those whose (vendor, date,
\* amount) another row shares.
C5_SimilarReturnsSharedTuples ==
    /\ CalledAp02("similar_vendor") =>
          \A i \in 1..Len(table) : i \in ResultIdx <=> HasPartner(i, {"inv", "d", "amt"})
    /\ CalledAp02("similar_invoice") =>
          \A i \in 1..Len(table) : i \in ResultIdx <=> HasPartner(i, {"v", "d", "amt"})

\* A 'similar_vendor' run that returns two rows of different vendors and leaves
\* out a third row.
C5_Witness ==
    /\ CalledAp02("similar_vendor")
    /\ Len(table) = 3
    /\ \E a, b \in ResultIdx : table[a].v # table[b].v
    /\ Cardinality(ResultIdx) = 2

\* The table has two rows of equal vendor, invoice and amount.
TwoRowsSameKey ==
    /\ Len(table) = 2
    /\ SharesTuple(1, 2, {"v", "inv", "amt"})
    /\ table[1].amt # NaN

TwoDaysApart ==
    /\ Parseable(table[1].d) /\ Parseable(table[2].d)
    /\ Abs(ToDatetime(table[1].d) - ToDatetime(table[2].d)) = 2 * 2

BothRowsReturned == Len(result) = 2 /\ ResultIdx = {1, 2}

\* C6: on two rows of equal vendor, invoice and amount, 'exact' returns both
\* when the dates are equal; when the dates are 2 days apart 'near_invoice'
\* returns both with tolerance 5 and nothing with tolerance 1.
C6_TwoRowScenario ==
    (op = "ap02" /\ TwoRowsSameKey) =>
        /\ (test_type = "exact" /\ table[1].d = table[2].d) => BothRowsReturned
        /\ (test_type = "near_invoice" /\ TwoDaysApart /\ tolerance = 5) => BothRowsReturned
        /\ (test_type = "near_invoice" /\ TwoDaysApart /\ tolerance = 1) => result = <<>>

\* The 'near_invoice' run with tolerance 5 on two rows dated 2 days apart.
C6_Witness ==
    /\ CalledAp02("near_invoice")
    /\ TwoRowsSameKey
    /\ TwoDaysApart
    /\ tolerance = 5
    /\ BothRowsReturned

\* C7: a call with a strategy outside the five ends in an InvalidArgument error
\* and returns no table.
C7_UnknownStrategyInvalidArgument ==
    (op = "ap02" /\ test_type \notin TestTypes) =>
        status = "InvalidArgument" /\ result = <<>>

\* The thresholds are strictly ascending.
StrictlyAscending(pl) == \A i \in 1..(Len(pl) - 1) : pl[i] < pl[i + 1]

\* The threshold before position i, 0 before the first.
PrevThreshold(pl, i) == IF i > 1 THEN pl[i - 1] ELSE 0

\* The ages the bucket assignment is checked on: every age a row can have and
\* every age around the thresholds.
Ages == (0 - (MaxDay + MaxThreshold + 1))..(MaxDay + MaxThreshold + 1)

\* The labels of the partition that the thresholds pl define.
PartitionLabels(pl) ==
    {Future, Over(pl[Len(pl)])} \cup {Range(PrevThreshold(pl, i) + 1, pl[i]) : i \in 1..Len(pl)}

\* C8: for strictly ascending thresholds every age gets one label of the
\* partition: 'Future' exactly when it is negative, 'Over {max} days' exactly
\* when it is above the last threshold, and otherwise the label of the first
\* threshold that is >= the age; the rows of the annotated table carry the
\* label of their Days_Old.
C8_BucketAssignmentTotal ==
    (op = "ap01" /\ StrictlyAscending(period_list)) =>
        LET pl == period_list
            last == pl[Len(pl)]
        IN  /\ \A days \in Ages :
                  LET label == assign_bucket(days, pl)
                  IN  /\ label \in PartitionLabels(pl)
                      /\ label = Future <=> days < 0
                      /\ label = Over(last) <=> days > last
                      /\ (days >= 0 /\ days <= last) =>
                            \E i \in 1..Len(pl) :
                                /\ pl[i] >= days
                                /\ \A j \in 1..(i - 1) : pl[j] < days
                                /\ label = Range(PrevThreshold(pl, i) + 1, pl[i])
            /\ \A k \in 1..Len(result) :
                  result[k].Age_Bucket = assign_bucket(result[k].Days_Old, pl)

\* An aging run over two ascending thresholds with three rows that fall into
\* both ranges.
C8_Witness ==
    /\ op = "ap01"
    /\ Len(period_list) = 2
    /\ StrictlyAscending(period_list)
    /\ Len(result) = 3
    /\ \E k \in 1..Len(result) : result[k].Age_Bucket = Range(1, period_list[1])
    /\ \E k \in 1..Len(result) :
          result[k].Age_Bucket = Range(period_list[1] + 1, period_list[2])

\* C9 as stated: a row is labelled '{prev+1}-{period} days' exactly when its
\* Days_Old lies in prev+1 .. period.
C9_RangeLabelIffInNamedRange ==
    (op = "ap01" /\ StrictlyAscending(period_list)) =>
        \A k \in 1..Len(result) : \A i \in 1..Len(period_list) :
            LET lo == PrevThreshold(period_list, i) + 1
                hi == period_list[i]
            IN  result[k].Age_Bucket = Range(lo, hi) <=> result[k].Days_Old \in lo..hi

\* C9 as amended: the first label also takes the rows 0 days old: a row is
\* labelled '{prev+1}-{period} days' exactly when its Days_Old lies in
\* prev+1 .. period, or, for the first threshold, in 0 .. period.
C9_RangeLabelIffInRangeFromZero ==
    (op = "ap01" /\ StrictlyAscending(period_list)) =>
        \A k \in 1..Len(result) : \A i \in 1..Len(period_list) :
            LET lo == PrevThreshold(period_list, i) + 1
                hi == period_list[i]
                from == IF i = 1 THEN 0 ELSE lo
            IN  result[k].Age_Bucket = Range(lo, hi) <=> result[k].Days_Old \in from..hi

\* An aging run over two ascending thresholds with a row 0 days old in the first
\* range and a row in the second range.
C9_Witness ==
    /\ op = "ap01"
    /\ Len(period_list) = 2
    /\ StrictlyAscending(period_list)
    /\ \E k \in 1..Len(result) :
          result[k].Days_Old = 0 /\ result[k].Age_Bucket = Range(1, period_list[1])
    /\ \E k \in 1..Len(result) :
          result[k].Age_Bucket = Range(period_list[1] + 1, period_list[2])

RECURSIVE SumCounts(_)
SumCounts(rows) == IF rows = <<>> THEN 0 ELSE Head(rows).Count + SumCounts(Tail(rows))

\* C10: the counts of the summary rows add up to the number of rows of the table.
C10_SummaryCountsAddUp ==
    (op = "ap01" /\ status = "returned") => SumCounts(summary) = Len(table)

\* The rows of the annotated table labelled l.
RowsLabelled(l) == {k \in 1..Len(result) : result[k].Age_Bucket = l}

\* The sum of the amounts of the rows of the table in rows, a missing amount
\* adding nothing.
RECURSIVE SumAmounts(_)
SumAmounts(rows) ==
    IF rows = {} THEN 0
    ELSE LET k == CHOOSE r \in rows : TRUE
             a == result[k].row.amt
         IN  (IF a = NaN THEN 0 ELSE a[1]) + SumAmounts(rows \ {k})

\* C11: the summary has one row for each label some row of the annotated table
\* carries and no row for any other label; its Total_Amount is the sum of the
\* amounts of the rows with that label and its Count is the number of those rows.
C11_SummaryRowPerLabel ==
    (op = "ap01" /\ status = "returned") =>
        /\ {summary[k].Age_Bucket : k \in 1..Len(summary)}
              = {result[k].Age_Bucket : k \in 1..Len(result)}
        /\ \A j, k \in 1..Len(summary) :
              summary[j].Age_Bucket = summary[k].Age_Bucket => j = k
        /\ \A k \in 1..Len(summary) :
              /\ summary[k].Total_Amount = SumAmounts(RowsLabelled(summary[k].Age_Bucket))
              /\ summary[k].Count = Cardinality(RowsLabelled(summary[k].Age_Bucket))

\* C12: the annotated table has the rows of the table in their order, every
\* cell of the table kept (the date as the same instant), and exactly two more
\* columns: Days_Old, the days from the row's date to the cutoff date, and
\* Age_Bucket, the label of that age.
C12_AnnotatedTableKeepsRows ==
    (op = "ap01" /\ status = "returned") =>
        /\ Len(result) = Len(table)
        /\ \A k \in 1..Len(result) :
              /\ result[k].idx = k
              /\ DOMAIN result[k] = {"idx", "row", "Days_Old", "Age_Bucket"}
              /\ \A f \in FieldNames \ {"d"} : result[k].row[f] = table[k][f]
              /\ result[k].row.d = ToDatetime(table[k].d)
              /\ result[k].Days_Old = cutoff_date - table[k].d.day
              /\ result[k].Age_Bucket = assign_bucket(result[k].Days_Old, period_list)

\* The error kind of a column whose content cannot be coerced to the type an
\* analyzer requires: the ValueError pd.to_datetime raises.
DataFormatError == "ValueError"

\* C13: when the date of a row cannot be parsed the aging call fails as a whole
\* with the data-format error and returns neither the annotated table nor the
\* summary; no row is annotated.
C13_UnparseableDateFailsWholeCall ==
    (op = "ap01" /\ ~DatesParse(table)) =>
        /\ status = DataFormatError
        /\ result = <<>>
        /\ summary = <<>>

\* An aging run on three rows of which only the second holds an unparseable date.
C13_Witness ==
    /\ op = "ap01"
    /\ Len(table) = 3
    /\ {i \in 1..3 : ~Parseable(table[i].d)} = {2}
    /\ status = DataFormatError

\* ------------------------------------------------------------------ AP03
\* The ledger tables of the balance analyzers: rows of three vendors with
\* amounts of both signs and missing amounts; the other cells are the base row's.
LedgerVendors == {"X", "Y", "Z"}
LedgerAmounts == {<<400>>, <<200>>, <<-200>>, NaN}
LedgerRows == {[BaseRow EXCEPT !.v = v, !.amt = a] : v \in LedgerVendors, a \in LedgerAmounts}
LedgerTables == SeqsUpTo(LedgerRows, MaxRows)

\* The amounts of the rows of df of vendor v, in the order of df.
RECURSIVE VendorCells(_, _)
VendorCells(df, v) ==
    IF df = <<>> THEN <<>>
    ELSE (IF Head(df).v = v THEN <<Head(df).amt>> ELSE <<>>) \o VendorCells(Tail(df), v)

\* Mutant: the first amount of every vendor for the sum of its amounts.
RECURSIVE GroupByVendorFirst(_, _)
GroupByVendorFirst(df, keys) ==
    IF keys = {} THEN <<>>
    ELSE LET v == CHOOSE a \in keys : \A b \in keys \ {a} : StrOrd(a) < StrOrd(b)
         IN  <<[v |-> v, total |-> SumSkipNa(<<Head(VendorCells(df, v))>>)]>>
             \o GroupByVendorFirst(df, keys \ {v})

\* df.groupby(vendor_field)[amount_field].sum(): one total for each vendor of
\* keys, in the order of the vendors; a missing amount adds nothing.
RECURSIVE GroupByVendorSum(_, _)
GroupByVendorSum(df, keys) ==
    IF keys = {} THEN <<>>
    ELSE LET v == CHOOSE a \in keys : \A b \in keys \ {a} : StrOrd(a) < StrOrd(b)
         IN  <<[v |-> v, total |-> SumSkipNa(VendorCells(df, v))]>>
             \o GroupByVendorSum(df, keys \ {v})

\* .reset_index(): the totals as rows labelled by their position.
VendorTotals(df) ==
    LET sums == GroupByVendorSum(df, {df[i].v : i \in 1..Len(df)})
    IN  [i \in 1..Len(sums) |-> [idx |-> i, v |-> sums[i].v, total |-> sums[i].total]]

\* sort_values(column, ascending=False) of rows with a number in `by`: the
\* larger first, rows of equal numbers in their order in rows.
SortDescending(rows, by) ==
    SortValuesOf({rows[k] : k \in 1..Len(rows)},
                 [i \in {rows[k].idx : k \in 1..Len(rows)} |->
                    <<-(CHOOSE n \in {rows[k][by] : k \in {j \in 1..Len(rows) : rows[j].idx = i}} : TRUE), i>>])

\* Mutant: `>= 0` for `> 0`.
ap03_debit_balances_nonneg(df) ==
    LET totals == VendorTotals(df)
        summary_ == [i \in 1..Len(totals) |->
                       [idx |-> i, v |-> totals[i].v, Net_Balance |-> totals[i].total]]
        debit_balances == Filter(summary_, {i \in 1..Len(summary_) : summary_[i].Net_Balance >= 0})
    IN  SortDescending(debit_balances, "Net_Balance")

\* ap03_debit_balances: the vendors whose amounts add up to more than 0, the
\* largest balance first.
ap03_debit_balances(df) ==
    LET totals == VendorTotals(df)
        summary_ == [i \in 1..Len(totals) |->
                       [idx |-> i, v |-> totals[i].v, Net_Balance |-> totals[i].total]]
        debit_balances == Filter(summary_, {i \in 1..Len(summary_) : summary_[i].Net_Balance > 0})
    IN  SortDescending(debit_balances, "Net_Balance")

InitLedger ==
    /\ table \in LedgerTables
    /\ op = "none"
    /\ test_type = "none"
    /\ tolerance = 0
    /\ cutoff_date = 0
    /\ period_list = <<>>
    /\ status = "idle"
    /\ result = <<>>
    /\ summary = <<>>
    /\ limits = <<>>
    /\ start_date = 0
    /\ end_date = 0
    /\ fields = <<>>
    /\ error_limit = <<>>
    /\ warning = <<>>
    /\ selection = <<>>
    /\ InitApp

\* A run of the page's script that calls ap03_debit_balances on the table.
DebitBalances ==
    /\ status = "idle"
    /\ op' = "ap03"
    /\ status' = "returned"
    /\ result' = ap03_debit_balances(table)
    /\ UNCHANGED <<table, test_type, tolerance, cutoff_date, period_list, summary,
                   limit_args, field_args, selection, app_vars>>

NextBalances == DebitBalances \/ Rerun

SpecBalances == InitLedger /\ [][NextBalances]_vars

\* The sum of the amounts of the rows of the table of vendor v, a missing
\* amount adding nothing.
RECURSIVE SumOfRows(_)
SumOfRows(rows) ==
    IF rows = {} THEN 0
    ELSE LET i == CHOOSE r \in rows : TRUE
         IN  (IF table[i].amt = NaN THEN 0 ELSE table[i].amt[1]) + SumOfRows(rows \ {i})

NetBalance(v) == SumOfRows({i \in 1..Len(table) : table[i].v = v})

\* C14: the net debit balances hold one row for each vendor whose amounts add
\* up to more than 0 and none for any other vendor; the row's Net_Balance is the
\* sum of all the amounts of the vendor and the rows come with the balances in
\* non-increasing order.
C14_DebitBalancesPerVendor ==
    op = "ap03" =>
        /\ \A v \in LedgerVendors :
              Cardinality({k \in 1..Len(result) : result[k].v = v})
                  = IF NetBalance(v) > 0 THEN 1 ELSE 0
        /\ \A k \in 1..Len(result) : result[k].Net_Balance = NetBalance(result[k].v)
        /\ \A k \in 1..(Len(result) - 1) : result[k].Net_Balance >= result[k + 1].Net_Balance

\* A run on three vendors: the second in vendor order has the largest balance,
\* the first a smaller one and the third, with a negative amount, is left out.
C14_Witness ==
    /\ op = "ap03"
    /\ Len(result) = 2
    /\ result[1].v = "Y" /\ result[2].v = "X"
    /\ result[1].Net_Balance > result[2].Net_Balance
    /\ \E i \in 1..Len(table) : table[i].v = "Z"
    /\ NetBalance("Z") < 0

\* ------------------------------------------------------------------ AP04, AP05
MaxLimitRows == 2

\* The transactions of the limit analyzers: a base transaction and the
\* transactions that differ from it in the vendor, the amount or the date.
TxnBase == [BaseRow EXCEPT !.d = [day |-> 1, pm |-> FALSE], !.amt = <<400>>]
TxnRows ==
    {TxnBase, [TxnBase EXCEPT !.v = "Y"], [TxnBase EXCEPT !.amt = <<200>>]}
        \cup {[TxnBase EXCEPT !.d = d] : d \in Dates \ {Unparseable}}
TxnTables == SeqsUpTo(TxnRows, MaxRows)

\* The rows of the credit limits table: a vendor may be listed more than once.
LimitRows ==
    {[v |-> "X", limit |-> <<500>>], [v |-> "X", limit |-> <<400>>],
     [v |-> "Y", limit |-> <<200>>]}
LimitTables == SeqsUpTo(LimitRows, MaxLimitRows)

\* left.merge(right, left_on=vendor, right_on=vendor, how='inner'): for every
\* row of totals, in their order, a row for each row of lim of the same
\* vendor, in the order of lim; the rows are labelled by their position.
Merge(totals, lim) ==
    LET pairs == Concat([i \in 1..Len(totals) |->
                    Concat([j \in 1..Len(lim) |->
                        IF totals[i].v = lim[j].v
                        THEN <<[v |-> totals[i].v, total |-> totals[i].total,
                                limit |-> lim[j].limit]>>
                        ELSE <<>>])])
    IN  [k \in 1..Len(pairs) |->
            [idx |-> k, v |-> pairs[k].v, total |-> pairs[k].total, limit |-> pairs[k].limit]]

\* Mutant: `>=` for `>`.
ExceedingOrEqual(merged) ==
    Filter(merged, {k \in 1..Len(merged) :
                      merged[k].limit # NaN /\ merged[k].total >= merged[k].limit[1]})

\* merged[total > merged[limit_field]]: a comparison with a missing limit is false.
Exceeding(merged) ==
    Filter(merged, {k \in 1..Len(merged) :
                      merged[k].limit # NaN /\ merged[k].total > merged[k].limit[1]})

\* Mutant: the result left in the order of the merge.
ap04_exceeds_limit_unsorted(df_transactions, df_limits) ==
    LET exceeds == Exceeding(Merge(VendorTotals(df_transactions), df_limits))
    IN  [k \in 1..Len(exceeds) |->
            [idx |-> exceeds[k].idx, v |-> exceeds[k].v,
             Current_Balance |-> exceeds[k].total, limit |-> exceeds[k].limit,
             Excess_Amount |-> exceeds[k].total - exceeds[k].limit[1]]]

\* ap04_exceeds_limit: the vendors whose total over the whole table is above a
\* limit listed for them, the largest excess first.
ap04_exceeds_limit(df_transactions, df_limits) ==
    LET exceeds == Exceeding(Merge(VendorTotals(df_transactions), df_limits))
        with_excess == [k \in 1..Len(exceeds) |->
            [idx |-> exceeds[k].idx, v |-> exceeds[k].v,
             Current_Balance |-> exceeds[k].total, limit |-> exceeds[k].limit,
             Excess_Amount |-> exceeds[k].total - exceeds[k].limit[1]]]
    IN  SortDescending(with_excess, "Excess_Amount")

\* df[mask]: the rows dated from lo to hi (Timestamps), in the order of df.
RECURSIVE InWindow(_, _, _)
InWindow(df, lo, hi) ==
    IF df = <<>> THEN <<>>
    ELSE (IF ToDatetime(Head(df).d) >= lo /\ ToDatetime(Head(df).d) <= hi
          THEN <<Head(df)>> ELSE <<>>) \o InWindow(Tail(df), lo, hi)

\* df[(df[date_field] >= pd.to_datetime(start_date)) & (df[date_field] <=
\* pd.to_datetime(end_date))]: start and end are days, dates without a time of day.
ap05_filter(df, start, end) ==
    InWindow(df, ToDatetime([day |-> start, pm |-> FALSE]),
                 ToDatetime([day |-> end, pm |-> FALSE]))

\* ap05_exceeds_limit_period: as ap04_exceeds_limit over the transactions of
\* the window, or the error of pd.to_datetime.
ap05_exceeds_limit_period(df_transactions, df_limits, start, end) ==
    IF ~DatesParse(df_transactions) THEN [status |-> "ValueError", result |-> <<>>] ELSE
    LET df_filtered == ap05_filter(df_transactions, start, end)
        exceeds == Exceeding(Merge(VendorTotals(df_filtered), df_limits))
        with_excess == [k \in 1..Len(exceeds) |->
            [idx |-> exceeds[k].idx, v |-> exceeds[k].v,
             Total_Amount |-> exceeds[k].total, limit |-> exceeds[k].limit,
             Excess_Amount |-> exceeds[k].total - exceeds[k].limit[1]]]
    IN  [status |-> "returned", result |-> SortDescending(with_excess, "Excess_Amount")]

InitLimits ==
    /\ table \in TxnTables
    /\ limits \in LimitTables
    /\ op = "none"
    /\ test_type = "none"
    /\ tolerance = 0
    /\ cutoff_date = 0
    /\ period_list = <<>>
    /\ status = "idle"
    /\ result = <<>>
    /\ summary = <<>>
    /\ start_date = 0
    /\ end_date = 0
    /\ fields = <<>>
    /\ error_limit = <<>>
    /\ warning = <<>>
    /\ selection = <<>>
    /\ InitApp

\* A run of the page's script that calls ap04_exceeds_limit on the two tables.
ExceedsLimit ==
    /\ status = "idle"
    /\ op' = "ap04"
    /\ status' = "returned"
    /\ result' = ap04_exceeds_limit(table, limits)
    /\ UNCHANGED <<table, test_type, tolerance, cutoff_date, period_list, summary,
                   limit_args, field_args, selection, app_vars>>

\* A run of the page's script that calls ap05_exceeds_limit_period on the two
\* tables with the two dates of the page.
ExceedsLimitPeriod ==
    /\ status = "idle"
    /\ \E start \in 0..MaxDay, end \in 0..MaxDay :
          LET out == ap05_exceeds_limit_period(table, limits, start, end)
          IN  /\ op' = "ap05"
              /\ start_date' = start
              /\ end_date' = end
              /\ status' = out.status
              /\ result' = out.result
              /\ table' = CallerFrame(table, DatesWritten(table))
              /\ UNCHANGED <<test_type, tolerance, cutoff_date, period_list, summary,
                             limits, field_args, selection, app_vars>>

NextLimits == ExceedsLimit \/ ExceedsLimitPeriod \/ Rerun

SpecLimits == InitLimits /\ [][NextLimits]_vars

CalledLimits == op \in {"ap04", "ap05"} /\ status = "returned"

\* The aggregated amount of a result row: Current_Balance (ap04) or
\* Total_Amount (ap05).
AggregatedOf(r) ==
    IF "Current_Balance" \in DOMAIN r THEN r.Current_Balance ELSE r.Total_Amount

\* The rows of the table the last call aggregates: all of them (ap04) or those
\* whose Timestamp lies in the window (ap05).
AggregatedRows ==
    IF op = "ap04" THEN 1..Len(table)
    ELSE {i \in 1..Len(table) :
            /\ ToDatetime(table[i].d) >= 2 * start_date
            /\ ToDatetime(table[i].d) <= 2 * end_date}

Aggregated(v) == SumOfRows({i \in AggregatedRows : table[i].v = v})

\* C15: in every result row of ap04 and ap05 the limit is one listed for the
\* row's vendor, Excess_Amount is the aggregated amount less the limit and is
\* more than 0; a vendor without a row in limits is in no result row.
C15_ExcessPositiveAndLimited ==
    CalledLimits =>
        /\ \A k \in 1..Len(result) :
              /\ \E j \in 1..Len(limits) :
                    limits[j].v = result[k].v /\ limits[j].limit = result[k].limit
              /\ result[k].limit # NaN
              /\ result[k].Excess_Amount = AggregatedOf(result[k]) - result[k].limit[1]
              /\ result[k].Excess_Amount > 0
              /\ op = "ap04" => AggregatedOf(result[k]) = NetBalance(result[k].v)
        /\ \A v \in Vendors :
              (\A j \in 1..Len(limits) : limits[j].v # v) =>
                  \A k \in 1..Len(result) : result[k].v # v

\* A run that returns a vendor over its limit while another vendor of the
\* table, with a larger total, has no row in limits.
C15_Witness ==
    /\ CalledLimits
    /\ Len(result) = 1
    /\ \E v \in Vendors :
          /\ \A j \in 1..Len(limits) : limits[j].v # v
          /\ Aggregated(v) > AggregatedOf(result[1])

\* C16: the result rows of ap04 and ap05 come with Excess_Amount in
\* non-increasing order, and for every limit listed for a vendor whose
\* aggregated amount is above it the result has a row.
C16_SortedAndComplete ==
    CalledLimits =>
        /\ \A k \in 1..(Len(result) - 1) :
              result[k].Excess_Amount >= result[k + 1].Excess_Amount
        /\ \A j \in 1..Len(limits) :
              ((\E i \in AggregatedRows : table[i].v = limits[j].v)
                /\ Aggregated(limits[j].v) > limits[j].limit[1]) =>
                  \E k \in 1..Len(result) :
                      /\ result[k].v = limits[j].v
                      /\ result[k].limit = limits[j].limit
                      /\ AggregatedOf(result[k]) = Aggregated(limits[j].v)

\* An ap04 run that returns the second vendor in vendor order before the
\* first, its excess being the larger.
C16_Witness ==
    /\ op = "ap04"
    /\ Len(result) = 2
    /\ result[1].v = "Y" /\ result[2].v = "X"
    /\ result[1].Excess_Amount > result[2].Excess_Amount

\* The rows of the table dated from start_date to end_date, both days included.
RECURSIVE DatedWithin(_, _, _)
DatedWithin(t, start, end) ==
    IF t = <<>> THEN <<>>
    ELSE (IF Head(t).d.day >= start /\ Head(t).d.day <= end THEN <<Head(t)>> ELSE <<>>)
         \o DatedWithin(Tail(t), start, end)

\* C17: the result of ap05 is the result of ap04 on the transactions dated
\* from start_date to end_date, both days included: a transaction dated on one
\* of the two days counts, one dated outside does not.
C17_PeriodIsLimitOnWindow ==
    (op = "ap05" /\ status = "returned") =>
        LET whole == ap04_exceeds_limit(DatedWithin(table, start_date, end_date), limits)
        IN  /\ Len(result) = Len(whole)
            /\ \A k \in 1..Len(result) :
                  /\ result[k].v = whole[k].v
                  /\ result[k].limit = whole[k].limit
                  /\ result[k].Total_Amount = whole[k].Current_Balance
                  /\ result[k].Excess_Amount = whole[k].Excess_Amount

\* C18: with the limits {X: 500} and transactions that add up to 600 for X and
\* to 400 for Y, ap04 returns one row: X with Excess_Amount 100.
C18_LimitScenario ==
    (/\ op = "ap04"
     /\ limits = <<[v |-> "X", limit |-> <<500>>]>>
     /\ NetBalance("X") = 600
     /\ NetBalance("Y") = 400) =>
        /\ Len(result) = 1
        /\ result[1].v = "X"
        /\ result[1].Excess_Amount = 100

\* The ap04 run of the scenario: X with transactions of 400 and 200, Y with one of 400.
C18_Witness ==
    /\ op = "ap04"
    /\ limits = <<[v |-> "X", limit |-> <<500>>]>>
    /\ Len(table) = 3
    /\ NetBalance("X") = 600
    /\ NetBalance("Y") = 400
    /\ result # <<>>

\* ------------------------------------------------------------------ AP14
\* error_limit when the caller passes none.
DefaultErrorLimit == 20

\* A blank entry of a fields list.
Blank == ""

\* The fields lists of the calls: four entries, the k-th either blank or the
\* k-th of the mapped columns.
KeyColumns == <<"v", "inv", "d", "amt">>
FieldLists ==
    {[k \in 1..Len(KeyColumns) |-> IF k \in S THEN KeyColumns[k] ELSE Blank] :
        S \in SUBSET (1..Len(KeyColumns))}

\* error_limit of the calls: None (0), a limit below the size of the tables and
\* the default.
ErrorLimits == {0, MaxRows - 1, DefaultErrorLimit}

\* Mutant: only the first entry that is not blank is kept.
RECURSIVE NonBlankFirst(_)
NonBlankFirst(fs) ==
    IF fs = <<>> THEN <<>>
    ELSE IF Head(fs) # Blank THEN <<Head(fs)>> ELSE NonBlankFirst(Tail(fs))

\* [f for f in fields if f]
RECURSIVE NonBlank(_)
NonBlank(fs) ==
    IF fs = <<>> THEN <<>>
    ELSE (IF Head(fs) # Blank THEN <<Head(fs)>> ELSE <<>>) \o NonBlank(Tail(fs))

\* Mutant: without the early return an empty subset stands for all the
\* columns of the table.
ap14_duplicate_fields_all_columns(df, fs, limit) ==
    LET selected == NonBlank(fs)
        subset == IF selected = <<>> THEN FieldNames
                  ELSE {selected[k] : k \in 1..Len(selected)}
        duplicates == Filter(Indexed(df), Duplicated(df, subset))
    IN  IF limit # 0 /\ Len(duplicates) > limit
        THEN [result |-> SubSeq(duplicates, 1, limit), warning |-> <<Len(duplicates), limit>>]
        ELSE [result |-> duplicates, warning |-> <<>>]

\* Mutant: the last `limit` rows for the first (tail for head).
ap14_duplicate_fields_tail(df, fs, limit) ==
    LET selected == NonBlank(fs)
        duplicates == Filter(Indexed(df),
                             Duplicated(df, {selected[k] : k \in 1..Len(selected)}))
    IN  IF selected = <<>> THEN [result |-> <<>>, warning |-> <<>>]
        ELSE IF limit # 0 /\ Len(duplicates) > limit
        THEN [result |-> SubSeq(duplicates, Len(duplicates) - limit + 1, Len(duplicates)),
              warning |-> <<Len(duplicates), limit>>]
        ELSE [result |-> duplicates, warning |-> <<>>]

\* ap14_duplicate_fields: the rows that share their tuple over the fields that
\* are not blank, cut to the first `limit` rows, with the warning
\* "Found {len(duplicates)} duplicates, showing first {error_limit}", when
\* there are more and limit is not None (0).
ap14_duplicate_fields(df, fs, limit) ==
    LET selected == NonBlank(fs)
        duplicates == Filter(Indexed(df),
                             Duplicated(df, {selected[k] : k \in 1..Len(selected)}))
    IN  IF selected = <<>> THEN [result |-> <<>>, warning |-> <<>>]
        ELSE IF limit # 0 /\ Len(duplicates) > limit
        THEN [result |-> SubSeq(duplicates, 1, limit), warning |-> <<Len(duplicates), limit>>]
        ELSE [result |-> duplicates, warning |-> <<>>]

\* A call of ap14_duplicate_fields on the table of the page, with a fields list
\* and an error_limit.
DuplicateFields ==
    /\ status = "idle"
    /\ \E fs \in FieldLists, limit \in ErrorLimits :
          LET out == ap14_duplicate_fields(table, fs, limit)
          IN  /\ op' = "ap14"
              /\ fields' = fs
              /\ error_limit' = <<limit>>
              /\ status' = "returned"
              /\ result' = out.result
              /\ warning' = out.warning
              /\ UNCHANGED <<table, test_type, tolerance, cutoff_date, period_list, summary,
                             limit_args, selection, app_vars>>

\* A call of ap14_duplicate_fields that passes no error_limit: the parameter
\* takes its default.
DuplicateFieldsDefault ==
    /\ status = "idle"
    /\ \E fs \in FieldLists :
          LET out == ap14_duplicate_fields(table, fs, DefaultErrorLimit)
          IN  /\ op' = "ap14"
              /\ fields' = fs
              /\ error_limit' = <<>>
              /\ status' = "returned"
              /\ result' = out.result
              /\ warning' = out.warning
              /\ UNCHANGED <<table, test_type, tolerance, cutoff_date, period_list, summary,
                             limit_args, selection, app_vars>>

NextFields == DuplicateFields \/ DuplicateFieldsDefault \/ Rerun

SpecFields == Init /\ [][NextFields]_vars

\* Long tables: copies of the base row, after which a row of another vendor
\* may come.
MaxCopies == 21
LongTables ==
    {[i \in 1..n |-> BaseRow] : n \in 0..MaxCopies}
        \cup {Append([i \in 1..n |-> BaseRow], [BaseRow EXCEPT !.v = "Y"]) : n \in 0..MaxCopies}

InitLong ==
    /\ table \in LongTables
    /\ op = "none"
    /\ test_type = "none"
    /\ tolerance = 0
    /\ cutoff_date = 0
    /\ period_list = <<>>
    /\ status = "idle"
    /\ result = <<>>
    /\ summary = <<>>
    /\ limits = <<>>
    /\ start_date = 0
    /\ end_date = 0
    /\ fields = <<>>
    /\ error_limit = <<>>
    /\ warning = <<>>
    /\ selection = <<>>
    /\ InitApp

SpecFieldsLong == InitLong /\ [][NextFields]_vars

\* The fields of the last call that are not blank.
SelectedFields == {fields[k] : k \in 1..Len(fields)} \ {Blank}

\* The returned rows are the rows of the table that share their tuple over
\* subset with another row, each once, as it is in the table and in the order
\* of the table.
ReturnsSharedTuples(subset) ==
    /\ \A i \in 1..Len(table) : i \in ResultIdx <=> HasPartner(i, subset)
    /\ \A k \in 1..Len(result) : result[k].row = table[result[k].idx]
    /\ \A k \in 1..(Len(result) - 1) : result[k].idx < result[k + 1].idx

\* C19: with one to four fields selected and no truncation, ap14 returns
\* exactly the rows whose tuple over the selected fields another row shares; with
\* a single field A these are the rows whose value of A occurs more than once.
C19_FieldsReturnSharedTuples ==
    (op = "ap14" /\ SelectedFields # {} /\ warning = <<>>) =>
        /\ Cardinality(SelectedFields) \in 1..4
        /\ ReturnsSharedTuples(SelectedFields)
        /\ \A A \in FieldNames : SelectedFields = {A} =>
              ResultIdx = {i \in 1..Len(table) :
                  Cardinality({j \in 1..Len(table) : table[j][A] = table[i][A]}) > 1}

\* A run with two fields selected that returns two rows of three; the two rows
\* differ in a field that is not selected.
C19_Witness ==
    /\ op = "ap14"
    /\ Cardinality(SelectedFields) = 2
    /\ warning = <<>>
    /\ Len(table) = 3
    /\ Cardinality(ResultIdx) = 2
    /\ \E a, b \in ResultIdx : table[a] # table[b]

\* C20: the blank entries of the fields list are ignored: the result is that
\* of the entries that are not blank; when no entry is left the call returns
\* an empty table without an error, whatever the table.
C20_BlankFieldsIgnored ==
    op = "ap14" =>
        /\ status = "returned"
        /\ (SelectedFields # {} /\ warning = <<>>) => ReturnsSharedTuples(SelectedFields)
        /\ SelectedFields = {} => (result = <<>> /\ warning = <<>>)

\* A call with four blank entries on a table with two equal rows, and nothing returned.
C20_Witness ==
    /\ op = "ap14"
    /\ \A k \in 1..Len(fields) : fields[k] = Blank
    /\ Len(fields) = 4
    /\ \E i, j \in 1..Len(table) : i # j /\ table[i] = table[j]
    /\ status = "returned"
    /\ result = <<>>

\* The index labels of the rows of the table that share their tuple over the
\* selected fields with another row.
Matching == {i \in 1..Len(table) : HasPartner(i, SelectedFields)}

\* The limit the last call ran with: the argument, or the default when the call
\* passed none.
LimitOfCall == IF error_limit = <<>> THEN DefaultErrorLimit ELSE error_limit[1]

\* C21: when error_limit is set and more rows match, ap14 returns the first
\* error_limit matching rows in the order of the table and warns with the number
\* of matching rows and the number shown; when no more rows match than
\* error_limit, all of them are returned and there is no warning.
C21_TruncatesToFirstRows ==
    (op = "ap14" /\ SelectedFields # {} /\ error_limit # <<>> /\ error_limit # <<0>>) =>
        IF Cardinality(Matching) > error_limit[1]
        THEN /\ Len(result) = error_limit[1]
             /\ \A k \in 1..Len(result) :
                   /\ result[k].idx \in Matching
                   /\ result[k].row = table[result[k].idx]
                   /\ Cardinality({i \in Matching : i <= result[k].idx}) = k
             /\ warning = <<Cardinality(Matching), error_limit[1]>>
        ELSE ReturnsSharedTuples(SelectedFields) /\ warning = <<>>

\* A call with a limit of two on three matching rows of which the first two
\* are returned.
C21_Witness ==
    /\ op = "ap14"
    /\ error_limit = <<2>>
    /\ Cardinality(Matching) = 3
    /\ Len(result) = 2
    /\ warning = <<3, 2>>

\* C22: a call of ap14 that passes no error_limit returns every matching row,
\* however many there are.
C22_NoArgumentNoCap ==
    (op = "ap14" /\ SelectedFields # {} /\ error_limit = <<>>) =>
        ReturnsSharedTuples(SelectedFields) /\ warning = <<>>

\* C28: every vendor has at most one row in the result of ap04 and of ap05,
\* whatever the limits table, one that lists a vendor on several rows with
\* different limits included.
C28_OneRowPerVendor ==
    CalledLimits =>
        \A j, k \in 1..Len(result) : result[j].v = result[k].v => j = k

\* The rows of a returned frame, as a set.
RowSet(df) == {df[k] : k \in 1..Len(df)}

\* What ap02_find_duplicates gives for the table and tolerance of the call
\* under another test_type.
UnderTestType(tt) == ap02_find_duplicates(table, tt, tolerance)

\* C26: 'near_invoice' and 'near_date' return the same set of rows for every
\* table and tolerance (and fail on the same tables): grouping by (vendor,
\* invoice) and comparing the amounts of a pair selects the rows that
\* grouping by (vendor, invoice, amount) selects.
C26_NearStrategiesAgree ==
    /\ CalledAp02("near_invoice") =>
          /\ status = UnderTestType("near_date").status
          /\ RowSet(result) = RowSet(UnderTestType("near_date").result)
    /\ CalledAp02("near_date") =>
          /\ status = UnderTestType("near_invoice").status
          /\ RowSet(result) = RowSet(UnderTestType("near_invoice").result)

\* A call of 'near_invoice' that returns rows from a table where one (vendor,
\* invoice) group holds two amounts, so that the two groupings differ.
C26_Witness ==
    /\ CalledAp02("near_invoice")
    /\ status = "returned"
    /\ result # <<>>
    /\ tolerance > 0
    /\ \E i, j \in 1..Len(table) :
          /\ NearInvoiceGroup(table[i], table[j])
          /\ table[i].amt # NaN /\ table[j].amt # NaN
          /\ table[i].amt # table[j].amt

\* The tolerances from the one of the call up to the largest.
WiderTolerances == {t \in 0..MaxTol : t >= tolerance}

\* C27: the rows 'near_invoice' and 'near_date' return with a tolerance are
\* returned with every larger tolerance too, and the rows 'exact' returns are
\* returned by 'similar_vendor' and by 'similar_invoice'.
C27_MonotoneInTolerance ==
    /\ \A tt \in {"near_invoice", "near_date"} :
          (CalledAp02(tt) /\ status = "returned") =>
              \A t2 \in WiderTolerances :
                  RowSet(result) \subseteq RowSet(ap02_find_duplicates(table, tt, t2).result)
    /\ CalledAp02("exact") =>
          /\ RowSet(result) \subseteq RowSet(UnderTestType("similar_vendor").result)
          /\ RowSet(result) \subseteq RowSet(UnderTestType("similar_invoice").result)

\* A call of 'near_invoice' that returns rows and would return more of them
\* with a larger tolerance.
C27_Witness ==
    /\ CalledAp02("near_invoice")
    /\ status = "returned"
    /\ result # <<>>
    /\ \E t2 \in WiderTolerances :
          RowSet(result) # RowSet(ap02_find_duplicates(table, "near_invoice", t2).result)

\* ------------------------------------------------------------------ AP06 to AP13
\* The times of day of the Timestamps of the tables, as the page formats
\* them (f"{hour:02d}:{minute:02d}:{second:02d}").
TimeStrings == {"00:00:00", "12:00:00"}

\* datetime.strptime(s, '%H:%M:%S').time(), in half days.
Strptime(s) == IF s = "12:00:00" THEN 1 ELSE 0

\* Series.dt.dayofweek of a Timestamp (Monday is 0): day 0 of the tables is a
\* Friday.
DayOfWeek(ts) == ((ts \div 2) + 4) % 7

\* sort_values(column) of rows with a number in `by`: the smaller first, rows
\* of equal numbers in their order in rows.
SortAscending(rows, by) ==
    SortValuesOf({rows[k] : k \in 1..Len(rows)},
                 [i \in {rows[k].idx : k \in 1..Len(rows)} |->
                    <<(CHOOSE n \in {rows[k][by] : k \in {j \in 1..Len(rows) : rows[j].idx = i}} : TRUE), i>>])

\* ap06_creditor_summary: df[df[vendor_field] == selected_vendor].copy()
ap06_creditor_summary(df, selected_vendor) ==
    Filter(Indexed(df), {i \in 1..Len(df) : df[i].v = selected_vendor})

\* ap07_invoices_without_po: the rows whose po_field is missing or blank.  A
\* cell is a number or NaN, so that it is neither '' nor a text of blanks, and
\* the amounts are the only column that holds NaN.
ap07_invoices_without_po(df, po_field) ==
    Filter(Indexed(df), {i \in 1..Len(df) : po_field = "amt" /\ df[i].amt = NaN})

\* ap08_transactions_around_date: the rows dated within days_range days of
\* target_date with their Days_Difference, the nearest first.
ap08_transactions_around_date(df, target_date, days_range) ==
    IF ~DatesParse(df) THEN [status |-> "ValueError", result |-> <<>>] ELSE
    LET conv == ConvertDates(df)
        target == ToDatetime([day |-> target_date, pm |-> FALSE])
        with_diff == [i \in 1..Len(df) |->
                        [idx |-> i, row |-> conv[i].row,
                         Days_Difference |-> Abs(TimedeltaDays(conv[i].row.d - target))]]
        kept == Filter(with_diff, {i \in 1..Len(df) : with_diff[i].Days_Difference <= days_range})
    IN  [status |-> "returned", result |-> SortAscending(kept, "Days_Difference")]

\* ap09_transactions_date_range: the rows dated from start_date to end_date.
ap09_transactions_date_range(df, start, end) ==
    IF ~DatesParse(df) THEN [status |-> "ValueError", result |-> <<>>] ELSE
    LET conv == ConvertDates(df)
        lo == ToDatetime([day |-> start, pm |-> FALSE])
        hi == ToDatetime([day |-> end, pm |-> FALSE])
    IN  [status |-> "returned",
         result |-> Filter(conv, {i \in 1..Len(df) : conv[i].row.d >= lo /\ conv[i].row.d <= hi})]

\* ap10_transactions_time_range: the rows whose time of day (dt.time, in half
\* days) is from start_time to end_time, through midnight when start_time is
\* the later of the two.
ap10_transactions_time_range(df, start_time, end_time) ==
    IF ~DatesParse(df) THEN [status |-> "ValueError", result |-> <<>>] ELSE
    LET conv == ConvertDates(df)
        with_time == [i \in 1..Len(df) |->
                        [idx |-> i, row |-> conv[i].row, Time_Only |-> conv[i].row.d % 2]]
        start_t == Strptime(start_time)
        end_t == Strptime(end_time)
        inside(t) == IF start_t <= end_t THEN t >= start_t /\ t <= end_t
                     ELSE t >= start_t \/ t <= end_t
    IN  [status |-> "returned",
         result |-> Filter(with_time, {i \in 1..Len(df) : inside(with_time[i].Time_Only)})]

\* ap11_transactions_by_user: df[df[user_field] == selected_user].copy()
ap11_transactions_by_user(df, selected_user) ==
    Filter(Indexed(df), {i \in 1..Len(df) : df[i].x = selected_user})

\* ap12_weekend_transactions: the rows dated on a day of the weekend.
ap12_weekend_transactions(df, weekend_type) ==
    IF ~DatesParse(df) THEN [status |-> "ValueError", result |-> <<>>] ELSE
    LET conv == ConvertDates(df)
        with_day == [i \in 1..Len(df) |->
                       [idx |-> i, row |-> conv[i].row, DayOfWeek |-> DayOfWeek(conv[i].row.d)]]
        weekend == IF weekend_type = "sat_sun" THEN {5, 6} ELSE {6, 0}
    IN  [status |-> "returned",
         result |-> Filter(with_day, {i \in 1..Len(df) : with_day[i].DayOfWeek \in weekend})]

\* Series.round() of an amount cell: the amounts of the tables are whole
\* numbers and round to themselves, NaN stays NaN.
Round(amt) == amt

\* ap13_rounded_amounts: the rows whose amount equals its rounding (NaN equals
\* nothing).
ap13_rounded_amounts(df) ==
    Filter(Indexed(df), {i \in 1..Len(df) : df[i].amt # NaN /\ df[i].amt = Round(df[i].amt)})

\* A run of the page that calls ap06_creditor_summary with a vendor of the
\* selectbox, which lists the vendors of the table.
CreditorSummary ==
    /\ status = "idle"
    /\ \E v \in {table[i].v : i \in 1..Len(table)} :
          /\ op' = "ap06"
          /\ selection' = [selected_vendor |-> v]
          /\ status' = "returned"
          /\ result' = ap06_creditor_summary(table, v)
          /\ table' = CallerFrame(table, table)
          /\ UNCHANGED <<test_type, tolerance, cutoff_date, period_list, summary,
                         limit_args, field_args, app_vars>>

\* A run of the page that calls ap07_invoices_without_po with a column, the
\* amounts or the users.
InvoicesWithoutPo ==
    /\ status = "idle"
    /\ \E f \in {"amt", "x"} :
          /\ op' = "ap07"
          /\ selection' = [po_field |-> f]
          /\ status' = "returned"
          /\ result' = ap07_invoices_without_po(table, f)
          /\ table' = CallerFrame(table, table)
          /\ UNCHANGED <<test_type, tolerance, cutoff_date, period_list, summary,
                         limit_args, field_args, app_vars>>

\* A run of the page that calls ap08_transactions_around_date (days_range has
\* min_value=1).
TransactionsAroundDate ==
    /\ status = "idle"
    /\ \E target \in 0..MaxDay, range \in 1..MaxDay :
          /\ op' = "ap08"
          /\ selection' = [target_date |-> target, days_range |-> range]
          /\ status' = ap08_transactions_around_date(table, target, range).status
          /\ result' = ap08_transactions_around_date(table, target, range).result
          /\ table' = CallerFrame(table, DatesWritten(table))
          /\ UNCHANGED <<test_type, tolerance, cutoff_date, period_list, summary,
                         limit_args, field_args, app_vars>>

\* A run of the page that calls ap09_transactions_date_range with two dates.
TransactionsDateRange ==
    /\ status = "idle"
    /\ \E start \in 0..MaxDay, end \in 0..MaxDay :
          /\ op' = "ap09"
          /\ selection' = [start_date |-> start, end_date |-> end]
          /\ status' = ap09_transactions_date_range(table, start, end).status
          /\ result' = ap09_transactions_date_range(table, start, end).result
          /\ table' = CallerFrame(table, DatesWritten(table))
          /\ UNCHANGED <<test_type, tolerance, cutoff_date, period_list, summary,
                         limit_args, field_args, app_vars>>

\* A run of the page that calls ap10_transactions_time_range with two times.
TransactionsTimeRange ==
    /\ status = "idle"
    /\ \E start \in TimeStrings, end \in TimeStrings :
          /\ op' = "ap10"
          /\ selection' = [start_time |-> start, end_time |-> end]
          /\ status' = ap10_transactions_time_range(table, start, end).status
          /\ result' = ap10_transactions_time_range(table, start, end).result
          /\ table' = CallerFrame(table, DatesWritten(table))
          /\ UNCHANGED <<test_type, tolerance, cutoff_date, period_list, summary,
                         limit_args, field_args, app_vars>>

\* A run of the page that calls ap11_transactions_by_user with a user of the
\* selectbox, which lists the users of the table.
TransactionsByUser ==
    /\ status = "idle"
    /\ \E u \in {table[i].x : i \in 1..Len(table)} :
          /\ op' = "ap11"
          /\ selection' = [selected_user |-> u]
          /\ status' = "returned"
          /\ result' = ap11_transactions_by_user(table, u)
          /\ table' = CallerFrame(table, table)
          /\ UNCHANGED <<test_type, tolerance, cutoff_date, period_list, summary,
                         limit_args, field_args, app_vars>>

\* A run of the page that calls ap12_weekend_transactions.
WeekendTransactions ==
    /\ status = "idle"
    /\ \E w \in {"sat_sun", "sun_mon"} :
          /\ op' = "ap12"
          /\ selection' = [weekend_type |-> w]
          /\ status' = ap12_weekend_transactions(table, w).status
          /\ result' = ap12_weekend_transactions(table, w).result
          /\ table' = CallerFrame(table, DatesWritten(table))
          /\ UNCHANGED <<test_type, tolerance, cutoff_date, period_list, summary,
                         limit_args, field_args, app_vars>>

\* A run of the page that calls ap13_rounded_amounts.
RoundedAmounts ==
    /\ status = "idle"
    /\ op' = "ap13"
    /\ selection' = [amount_field |-> "amt"]
    /\ status' = "returned"
    /\ result' = ap13_rounded_amounts(table)
    /\ table' = CallerFrame(table, table)
    /\ UNCHANGED <<test_type, tolerance, cutoff_date, period_list, summary,
                   limit_args, field_args, app_vars>>

\* ------------------------------------------------------------------ all analyzers
\* The rows of the tables every analyzer is called on: the base transaction
\* and its variants in the vendor, the time of day, the amount and the user.
AnalyzerRows ==
    {TxnBase, [TxnBase EXCEPT !.v = "Y"], [TxnBase EXCEPT !.d = [day |-> 0, pm |-> TRUE]],
     [TxnBase EXCEPT !.amt = NaN], [TxnBase EXCEPT !.x = 1]}

InitAnalyzers ==
    /\ table \in SeqsUpTo(AnalyzerRows, MaxRows)
    /\ limits = <<[v |-> "X", limit |-> <<400>>], [v |-> "Y", limit |-> <<200>>]>>
    /\ op = "none"
    /\ test_type = "none"
    /\ tolerance = 0
    /\ cutoff_date = 0
    /\ period_list = <<>>
    /\ status = "idle"
    /\ result = <<>>
    /\ summary = <<>>
    /\ start_date = 0
    /\ end_date = 0
    /\ fields = <<>>
    /\ error_limit = <<>>
    /\ warning = <<>>
    /\ selection = <<>>
    /\ InitApp

NextAnalyzers ==
    \/ AgingAnalysis
    \/ FindDuplicates
    \/ DebitBalances
    \/ ExceedsLimit
    \/ ExceedsLimitPeriod
    \/ CreditorSummary
    \/ InvoicesWithoutPo
    \/ TransactionsAroundDate
    \/ TransactionsDateRange
    \/ TransactionsTimeRange
    \/ TransactionsByUser
    \/ WeekendTransactions
    \/ RoundedAmounts
    \/ DuplicateFields
    \/ DuplicateFieldsDefault
    \/ Rerun

SpecAnalyzers == InitAnalyzers /\ [][NextAnalyzers]_vars

\* C23: no call of an analyzer, ap01 to ap14, changes a table it is given:
\* through every sequence of calls the rows of the table, their cells and
\* their order stay what they were, and so do those of the limits table.
C23_InputTablesUnchanged == [][table' = table /\ limits' = limits]_vars

\* A call that wrote Timestamps into the date column of its frame and
\* returned rows.
C23_Witness ==
    /\ op \in {"ap01", "ap02", "ap05", "ap08", "ap09", "ap10", "ap12"}
    /\ op = "ap02" => test_type \in {"near_invoice", "near_date"}
    /\ status = "returned"
    /\ result # <<>>
    /\ DatesWritten(table) # table

\* The core analyzers: aging, duplicates, net debit balances, the two limit
\* analyzers and the duplicate field search.
CoreAnalyzers == {"ap01", "ap02", "ap03", "ap04", "ap05", "ap14"}

\* A call of a core analyzer, of ap02 with one of its five test types.
CalledCore ==
    /\ op \in CoreAnalyzers
    /\ op = "ap02" => test_type \in TestTypes

\* C24: on a table without rows every core analyzer (ap01, ap02 under each
\* test type, ap03, ap04, ap05, ap14) returns, raises nothing, and what it
\* returns has no rows.
C24_EmptyInputGivesEmptyResult ==
    (CalledCore /\ table = <<>>) =>
        /\ status = "returned"
        /\ result = <<>>
        /\ summary = <<>>
        /\ warning = <<>>

\* The aging analysis called on a table without rows.
C24_Witness ==
    /\ op = "ap01"
    /\ table = <<>>
    /\ status = "returned"
    /\ result = <<>>

\* ------------------------------------------------------------------ mapping store
\* The values a mapping holds: a str (a column name of a selectbox), an int (a
\* number_input) and a numpy.int64 (a cell of an integer column, chosen in a
\* selectbox of sorted(df[field].unique())).
PyStr(s) == [py |-> "str", s |-> s]
PyInt(n) == [py |-> "int", n |-> n]
NpInt64(n) == [py |-> "numpy.int64", n |-> n]

\* == of two values in Python: a numpy.int64 equals the int of its number.
Plain(v) == IF v.py = "numpy.int64" THEN PyInt(v.n) ELSE v
PlainMappings(ms) ==
    [k \in AnalysisKeys |->
        IF ms[k] = <<>> THEN <<>>
        ELSE <<[i \in 1..Len(ms[k][1]) |-> <<ms[k][1][i][1], Plain(ms[k][1][i][2])>>]>>]

\* The mappings the pages save, a dict as the sequence of its items.
Ap02Mapping(tol) ==
    <<<<"vendor_field", PyStr("v")>>, <<"invoice_field", PyStr("inv")>>,
      <<"date_field", PyStr("d")>>, <<"amount_field", PyStr("amt")>>,
      <<"tolerance", PyInt(tol)>>>>
Ap03Mapping == <<<<"vendor_field", PyStr("v")>>, <<"amount_field", PyStr("amt")>>>>
Ap11Mapping(u) == <<<<"user_field", PyStr("x")>>, <<"selected_user", NpInt64(u)>>>>

\* The order json.dump writes the analysis keys in.
KeyOrder == <<KeyAP02, KeyAP03, KeyAP11>>

\* json.dump of a value, a token of the text of ap_mappings.json: a str and
\* an int have an encoding, a numpy.int64 has none (TypeError: Object of type
\* int64 is not JSON serializable).
EncodeValue(v) ==
    IF v.py = "str" THEN [t |-> "string", s |-> v.s] ELSE [t |-> "number", n |-> v.n]

\* json.dump(mappings, f, indent=2) writes the text piece by piece: when a
\* value has no encoding it raises and the file keeps what was written so far.
RECURSIVE DumpItems(_)
DumpItems(items) ==
    IF items = <<>> THEN [raised |-> FALSE, text |-> <<[t |-> "}"]>>]
    ELSE IF Head(items)[2].py \notin {"str", "int"}
         THEN [raised |-> TRUE, text |-> <<[t |-> "key", s |-> Head(items)[1]]>>]
         ELSE LET rest == DumpItems(Tail(items))
              IN  [raised |-> rest.raised,
                   text |-> <<[t |-> "key", s |-> Head(items)[1]], EncodeValue(Head(items)[2])>> \o rest.text]

RECURSIVE DumpEntries(_, _)
DumpEntries(ms, keys) ==
    IF keys = <<>> THEN [raised |-> FALSE, text |-> <<[t |-> "}"]>>]
    ELSE IF ms[Head(keys)] = <<>> THEN DumpEntries(ms, Tail(keys))
    ELSE LET inner == DumpItems(ms[Head(keys)][1])
             opened == <<[t |-> "key", s |-> Head(keys)], [t |-> "{"]>> \o inner.text
         IN  IF inner.raised THEN [raised |-> TRUE, text |-> opened]
             ELSE LET rest == DumpEntries(ms, Tail(keys))
                  IN  [raised |-> rest.raised, text |-> opened \o rest.text]

JsonDump(ms) ==
    LET d == DumpEntries(ms, KeyOrder)
    IN  [raised |-> d.raised, text |-> <<[t |-> "{"]>> \o d.text]

\* json.load of a value: a string is a str, a number an int.
DecodeValue(tok) == IF tok.t = "string" THEN PyStr(tok.s) ELSE PyInt(tok.n)

\* json.load of the items of an inner object from token i on.
RECURSIVE LoadItems(_, _, _)
LoadItems(text, i, items) ==
    IF i > Len(text) THEN [ok |-> FALSE, items |-> <<>>, next |-> i]
    ELSE IF text[i].t = "}" THEN [ok |-> TRUE, items |-> items, next |-> i + 1]
    ELSE IF text[i].t = "key" /\ i + 1 <= Len(text) /\ text[i + 1].t \in {"string", "number"}
         THEN LoadItems(text, i + 2, Append(items, <<text[i].s, DecodeValue(text[i + 1])>>))
         ELSE [ok |-> FALSE, items |-> <<>>, next |-> i]

\* json.load of the entries of the outer object from token i on.
RECURSIVE LoadEntries(_, _, _)
LoadEntries(text, i, ms) ==
    IF i > Len(text) THEN [ok |-> FALSE, value |-> ms, next |-> i]
    ELSE IF text[i].t = "}" THEN [ok |-> TRUE, value |-> ms, next |-> i + 1]
    ELSE IF text[i].t = "key" /\ i + 1 <= Len(text) /\ text[i + 1].t = "{"
         THEN LET inner == LoadItems(text, i + 2, <<>>)
              IN  IF inner.ok
                  THEN LoadEntries(text, inner.next, [ms EXCEPT ![text[i].s] = <<inner.items>>])
                  ELSE [ok |-> FALSE, value |-> ms, next |-> i]
         ELSE [ok |-> FALSE, value |-> ms, next |-> i]

\* json.load(f): the dict of the text, or JSONDecodeError when the text is no
\* document.
JsonLoad(text) ==
    IF text = <<>> \/ Head(text).t # "{" THEN [status |-> "JSONDecodeError", value |-> NoMappings]
    ELSE LET r == LoadEntries(text, 2, NoMappings)
         IN  IF r.ok /\ r.next = Len(text) + 1
             THEN [status |-> "returned", value |-> r.value]
             ELSE [status |-> "JSONDecodeError", value |-> NoMappings]

\* load_mappings: {} when there is no file; the error of json.load is not caught.
load_mappings(file) ==
    IF ~file.exists THEN [status |-> "returned", value |-> NoMappings]
    ELSE JsonLoad(file.text)

\* save_mappings: open(..., 'w') creates or empties the file and json.dump
\* writes into it.
save_mappings(ms) == [exists |-> TRUE, text |-> JsonDump(ms).text]

\* save_current_mapping: st.session_state.mappings[analysis_key] = mapping
save_current_mapping(ms, analysis_key, mapping) == [ms EXCEPT ![analysis_key] = <<mapping>>]

\* get_saved_mapping: st.session_state.mappings.get(analysis_key, {})
get_saved_mapping(ms, analysis_key) == IF ms[analysis_key] = <<>> THEN <<>> ELSE ms[analysis_key][1]

\* Mutant: the tolerance of the saved mapping (saved.get('tolerance', 5))
\* passed to the analyzer.
tolerance_saved(saved, entered) ==
    IF \E i \in 1..Len(saved) : saved[i][1] = "tolerance"
    THEN (CHOOSE v \in {saved[i][2] : i \in {j \in 1..Len(saved) : saved[j][1] = "tolerance"}} : TRUE).n
    ELSE MaxTol

\* The tolerance the page passes to ap02_find_duplicates: the number entered
\* in the number_input, whose default is the saved one.
tolerance_passed(saved, entered) == entered

\* The AP02 page with the button pressed: the mapping is saved in the session
\* and ap02_find_duplicates is called.
RunDuplicates ==
    /\ status = "idle"
    /\ \E tt \in TestTypes :
        \E tol \in (IF tt \in {"near_invoice", "near_date"} THEN {0, MaxTol} ELSE {0}) :
          LET saved == get_saved_mapping(mappings, KeyAP02)
              out == ap02_find_duplicates(table, tt, tolerance_passed(saved, tol))
          IN  /\ mappings' = save_current_mapping(mappings, KeyAP02, Ap02Mapping(tol))
              /\ op' = "ap02"
              /\ test_type' = tt
              /\ tolerance' = tol
              /\ status' = out.status
              /\ result' = out.result
              /\ summary' = <<>>
              /\ table' = CallerFrame(table,
                              IF tt \in {"near_invoice", "near_date"}
                              THEN DatesWritten(table) ELSE table)
              /\ trail' = "none"
              /\ UNCHANGED <<cutoff_date, period_list, limit_args, field_args, selection,
                             persisted, snapshot, earlier, users, reply>>

\* The AP03 page with the button pressed.
RunBalances ==
    /\ status = "idle"
    /\ mappings' = save_current_mapping(mappings, KeyAP03, Ap03Mapping)
    /\ op' = "ap03"
    /\ status' = "returned"
    /\ result' = ap03_debit_balances(table)
    /\ trail' = "none"
    /\ UNCHANGED <<table, test_type, tolerance, cutoff_date, period_list, summary,
                   limit_args, field_args, selection, persisted, snapshot, earlier, users, reply>>

\* The AP11 page with the button pressed: the user is a cell of the table.
RunByUser ==
    /\ status = "idle"
    /\ \E u \in {table[i].x : i \in 1..Len(table)} :
          /\ mappings' = save_current_mapping(mappings, KeyAP11, Ap11Mapping(u))
          /\ op' = "ap11"
          /\ selection' = [selected_user |-> u]
          /\ status' = "returned"
          /\ result' = ap11_transactions_by_user(table, u)
          /\ trail' = "none"
          /\ UNCHANGED <<table, test_type, tolerance, cutoff_date, period_list, summary,
                         limit_args, field_args, persisted, snapshot, earlier, users, reply>>

\* The sidebar button Load Saved Mappings: `if loaded:` keeps the session
\* mappings when the file is missing or holds {}; an error of json.load ends
\* the run.
LoadMappings ==
    /\ status = "idle"
    /\ LET loaded == load_mappings(persisted)
       IN  mappings' = IF loaded.status = "returned" /\ loaded.value # NoMappings
                       THEN loaded.value ELSE mappings
    /\ trail' = IF trail = "cleared" THEN "loaded" ELSE "none"
    /\ UNCHANGED <<table, op, test_type, tolerance, cutoff_date, period_list, status, result,
                   summary, limit_args, field_args, selection, persisted, snapshot, earlier, users, reply>>

\* The sidebar button Save Current Mappings.
SaveMappings ==
    /\ status = "idle"
    /\ persisted' = save_mappings(mappings)
    /\ snapshot' = mappings
    /\ trail' = "saved"
    /\ UNCHANGED <<table, op, test_type, tolerance, cutoff_date, period_list, status, result,
                   summary, limit_args, field_args, selection, mappings, earlier, users, reply>>

\* The sidebar button Clear All Mappings.
ClearMappings ==
    /\ status = "idle"
    /\ mappings' = NoMappings
    /\ trail' = IF trail = "saved" THEN "cleared" ELSE "none"
    /\ UNCHANGED <<table, op, test_type, tolerance, cutoff_date, period_list, status, result,
                   summary, limit_args, field_args, selection, persisted, snapshot, earlier, users, reply>>

\* The rows of the tables of the session: two invoices of one vendor, a day
\* apart, of two users.
SessionRows == {BaseRow, [BaseRow EXCEPT !.d = [day |-> 1, pm |-> FALSE], !.x = 1]}

InitSession ==
    /\ table \in SeqsUpTo(SessionRows, MaxRows)
    /\ limits = <<>>
    /\ op = "none"
    /\ test_type = "none"
    /\ tolerance = 0
    /\ cutoff_date = 0
    /\ period_list = <<>>
    /\ status = "idle"
    /\ result = <<>>
    /\ summary = <<>>
    /\ start_date = 0
    /\ end_date = 0
    /\ fields = <<>>
    /\ error_limit = <<>>
    /\ warning = <<>>
    /\ selection = <<>>
    /\ InitApp

\* The call of the state and what it returned.
RunRecord ==
    [call |-> [op |-> op, test_type |-> test_type, tolerance |-> tolerance,
               selection |-> selection],
     outcome |-> [status |-> status, result |-> result]]

\* The next run of the script in the session: as Rerun; the history may
\* remember the call that ends.
RerunSession ==
    /\ status # "idle"
    /\ op' = "none"
    /\ test_type' = "none"
    /\ tolerance' = 0
    /\ cutoff_date' = 0
    /\ period_list' = <<>>
    /\ status' = "idle"
    /\ result' = <<>>
    /\ summary' = <<>>
    /\ start_date' = 0
    /\ end_date' = 0
    /\ fields' = <<>>
    /\ error_limit' = <<>>
    /\ warning' = <<>>
    /\ selection' = <<>>
    /\ earlier' \in {earlier, <<RunRecord>>}
    /\ UNCHANGED <<table, limits, mappings, persisted, trail, snapshot, users, reply>>

NextSession ==
    \/ RunDuplicates
    \/ RunBalances
    \/ RunByUser
    \/ LoadMappings
    \/ SaveMappings
    \/ ClearMappings
    \/ RerunSession

SpecSession == InitSession /\ [][NextSession]_vars

\* The analysis key of the page of an analyzer of the session.
AnalyzerKey(o) == CASE o = "ap02" -> KeyAP02 [] o = "ap03" -> KeyAP03 [] OTHER -> KeyAP11

\* A step that is a press of Save Current Mappings, and one that is a press of
\* a page's button.
SaveStep == status = "idle" /\ status' = "idle" /\ trail' = "saved"
RunStep == status = "idle" /\ status' # "idle"

\* C29: through every sequence of Run, Save, Load and Clear the mappings
\* file changes on Save only and then holds the mappings of the session; a
\* Run of an analyzer replaces the session entry of its key and leaves the
\* entries of the other keys and the file alone; and after Save, Clear and
\* Load in a row the session holds the mappings that were saved.
C29_MappingStoreFrame ==
    [][/\ persisted' # persisted => SaveStep
       /\ SaveStep =>
             /\ load_mappings(persisted').status = "returned"
             /\ PlainMappings(load_mappings(persisted').value) = PlainMappings(mappings)
             /\ mappings' = mappings
       /\ RunStep =>
             /\ persisted' = persisted
             /\ mappings'[AnalyzerKey(op')] # <<>>
             /\ \A k \in AnalysisKeys \ {AnalyzerKey(op')} : mappings'[k] = mappings[k]
       /\ trail' = "loaded" => PlainMappings(mappings') = PlainMappings(snapshot')]_vars

\* What the analyzer of the call of the state returns for the table and the
\* options of that call.
OutcomeOfCall ==
    CASE op = "ap02" -> ap02_find_duplicates(table, test_type, tolerance)
      [] op = "ap03" -> [status |-> "returned", result |-> ap03_debit_balances(table)]
      [] OTHER -> [status |-> "returned",
                   result |-> ap11_transactions_by_user(table, selection.selected_user)]

Usernames ==
    {<<"b", "o", "b">>, <<" ", "b", "o", "b">>, <<"b", "o", "b", " ">>, <<"a", "m", "y">>,
     <<" ">>, <<>>}
Passwords == {<<"p", "w">>, <<"q">>, <<>>}
FirstNames == {<<"B">>, <<"A">>, <<>>}
LastNames == {<<"L">>}

\* os.urandom(16).hex(): one of the salts.
Salts == {"5a", "c3"}

\* str.strip(): the text without the blanks at its two ends.
RECURSIVE Lstrip(_)
Lstrip(s) == IF s # <<>> /\ Head(s) = " " THEN Lstrip(Tail(s)) ELSE s
RECURSIVE Rstrip(_)
Rstrip(s) == IF s # <<>> /\ s[Len(s)] = " " THEN Rstrip(SubSeq(s, 1, Len(s) - 1)) ELSE s
Strip(s) == Rstrip(Lstrip(s))

\* The username verify_user looks up: the text as it was typed.
LookupKey(username) == username

\* _hash_password: PBKDF2 of the password under the salt, taken as free of
\* collisions.
hash_password(password, salt) == <<"pbkdf2", password, salt>>

\* create_user: the reply and the table users after it (username is the
\* primary key of the table).
create_user(db, username, password, first_name, last_name, salt) ==
    LET stripped == Strip(username)
    IN  IF stripped = <<>> \/ password = <<>> \/ first_name = <<>> \/ last_name = <<>>
        THEN [ok |-> FALSE, msg |-> "All fields are required", db |-> db]
        ELSE IF stripped \in DOMAIN db
        THEN [ok |-> FALSE, msg |-> "Username already registered.", db |-> db]
        ELSE [ok |-> TRUE, msg |-> "Account Created.",
              db |-> [n \in DOMAIN db \cup {stripped} |->
                         IF n = stripped
                         THEN [pw_hash |-> hash_password(password, salt), salt |-> salt,
                               first_name |-> first_name, last_name |-> last_name]
                         ELSE db[n]]]

\* No names: the None, None of a failed verification.
None == [none |-> TRUE]

\* verify_user: (True, first_name, last_name) or (False, None, None).
verify_user(db, username, password) ==
    LET key == LookupKey(username)
    IN  IF key \notin DOMAIN db THEN <<FALSE, None, None>>
        ELSE IF hash_password(password, db[key].salt) = db[key].pw_hash
        THEN <<TRUE, db[key].first_name, db[key].last_name>>
        ELSE <<FALSE, None, None>>

\* The register form submitted.
CreateUser ==
    \E u \in Usernames, p \in Passwords, f \in FirstNames, l \in LastNames, salt \in Salts :
        LET out == create_user(users, u, p, f, l, salt)
        IN  /\ users' = out.db
            /\ reply' = [call |-> "create_user", username |-> u, password |-> p,
                         first_name |-> f, last_name |-> l, ok |-> out.ok, msg |-> out.msg]
            /\ UNCHANGED <<table, op, test_type, tolerance, cutoff_date, period_list, status,
                           result, summary, limit_args, field_args, selection,
                           mappings, persisted, trail, snapshot, earlier>>

\* The login form submitted.
VerifyUser ==
    \E u \in Usernames, p \in Passwords :
        /\ reply' = [call |-> "verify_user", username |-> u, password |-> p,
                     returned |-> verify_user(users, u, p)]
        /\ UNCHANGED <<table, op, test_type, tolerance, cutoff_date, period_list, status,
                       result, summary, limit_args, field_args, selection,
                       mappings, persisted, trail, snapshot, earlier, users>>

InitAuth ==
    /\ table = <<>>
    /\ limits = <<>>
    /\ op = "none"
    /\ test_type = "none"
    /\ tolerance = 0
    /\ cutoff_date = 0
    /\ period_list = <<>>
    /\ status = "idle"
    /\ result = <<>>
    /\ summary = <<>>
    /\ start_date = 0
    /\ end_date = 0
    /\ fields = <<>>
    /\ error_limit = <<>>
    /\ warning = <<>>
    /\ selection = <<>>
    /\ InitApp

NextAuth == CreateUser \/ VerifyUser

SpecAuth == InitAuth /\ [][NextAuth]_vars

\* C30: through every sequence of create_user calls a username is stored once,
\* with the credentials of its first successful registration (a create_user
\* for a registered username fails and leaves the record as it is); and once
\* create_user(u, p, first, last) has returned success, verify_user(u, p)
\* returns verified with (first, last) for the same text u, and verify_user
\* with another password returns not verified.
C30_RegisterThenVerify ==
    [][/\ \A n \in DOMAIN users : n \in DOMAIN users' /\ users'[n] = users[n]
       /\ (reply'.call = "create_user" /\ Strip(reply'.username) \in DOMAIN users) =>
             ~reply'.ok /\ users' = users
       /\ (reply'.call = "create_user" /\ reply'.ok) =>
             /\ verify_user(users', reply'.username, reply'.password)
                   = <<TRUE, reply'.first_name, reply'.last_name>>
             /\ \A q \in Passwords \ {reply'.password} :
                   ~verify_user(users', reply'.username, q)[1]]_vars

====
